---- MODULE Spec2Model ----
(***************************************************************************)
(* Model of airflow/operators/sensors.py: the polling loop of              *)
(* BaseSensorOperator.execute and the poke methods of the sensors derived  *)
(* from it.  Time is counted in whole seconds.  Python strings are tuples  *)
(* of one-character strings, Python's True and False are the integers 1    *)
(* and 0 (bool is a subclass of int).                                      *)
(***************************************************************************)
EXTENDS Integers, Sequences, FiniteSets, TLC

VARIABLES
    kind,           \* the class of the sensor: which poke is bound
    poke_interval,  \* self.poke_interval
    timeout,        \* self.timeout
    response_check, \* HttpSensor: whether self.response_check is set
    delta,          \* TimeDeltaSensor: self.delta
    context,        \* the context handed to execute
    pc,             \* position of the run in execute
    now,            \* the wall clock, datetime.now()
    started_at,     \* the local started_at of execute
    pokes,          \* calls to poke made so far
    sleeps,         \* sleeps completed so far
    lastPokeAt,     \* clock when the last poke was called
    lastInput,      \* what the collaborator gave the last poke
    results,        \* what each poke returned or raised, in call order
    checks,         \* timeout checks made so far
    lastElapsed,    \* now - started_at as read by the last timeout check
    conn_known,     \* whether the sensor's connection id is in the repository
    args,           \* the arguments the sensor was constructed with
    ctor_exc,       \* the exception that left __init__, "none" if none
    attrs,          \* the sensor's configuration attributes
    has_hook,       \* hasattr(self, 'hook')
    hooks_made,     \* hook objects constructed so far for this sensor
    transport,      \* the thrift transport of the metastore client
    hookCalls,      \* direct calls of HiveMetastoreHook methods so far
    lastCall,       \* the last direct call: method, collaborator input, outcome
    exception       \* the exception that left execute, if one did

config == <<kind, poke_interval, timeout, response_check, delta, context,
            conn_known, args, ctor_exc>>

(* what a poke can change besides the bookkeeping of execute *)
sensor == <<attrs, has_hook, hooks_made, transport>>

hook == <<hookCalls, lastCall>>

vars == <<kind, poke_interval, timeout, response_check, delta, context, pc,
          now, started_at, pokes, sleeps, lastPokeAt, lastInput, results,
          checks, lastElapsed, conn_known, args, ctor_exc, attrs, has_hook,
          hooks_made, transport, hookCalls, lastCall, exception>>

-----------------------------------------------------------------------------
(* Bounds of the model *)

MaxPokes == 3
MaxDelay == 2
MaxHookCalls == 3

(* datetime.timedelta: .seconds is the seconds field of the normalised
   (days, seconds, microseconds) triple, 0 <= seconds < 86400 *)
SecondsPerDay == 86400

(* BaseSensorOperator.__init__ defaults *)
DefaultPokeInterval == 60
DefaultTimeout == 60 * 60 * 24 * 7

NoTime == -1

PokeIntervals == {1, 2, DefaultPokeInterval, 43200}
Timeouts == {1, 3, 50000, DefaultTimeout}
PokeDurations == {0, 2}
SleepOverruns == {0, 1}

-----------------------------------------------------------------------------
(* Python values *)

Digit(d) == CASE d = 0 -> "0" [] d = 1 -> "1" [] d = 2 -> "2" [] d = 3 -> "3"
              [] d = 4 -> "4" [] d = 5 -> "5" [] d = 6 -> "6" [] d = 7 -> "7"
              [] d = 8 -> "8" [] d = 9 -> "9"

RECURSIVE NatToStr(_)
NatToStr(n) == IF n < 10 THEN <<Digit(n)>>
               ELSE Append(NatToStr(n \div 10), Digit(n % 10))

(* str() of a cell: decimal digits of an int, the text of a string, the
   word None for None *)
str(v) == CASE v.t = "int"  -> IF v.n < 0 THEN <<"-">> \o NatToStr(-v.n)
                               ELSE NatToStr(v.n)
            [] v.t = "str"  -> v.s
            [] v.t = "none" -> <<"N", "o", "n", "e">>

startswith(s, prefix) ==
    /\ Len(s) >= Len(prefix)
    /\ SubSeq(s, 1, Len(prefix)) = prefix

Contains(s, c) == \E i \in 1..Len(s) : s[i] = c

(* s.find(c) + 1: the position of the first c in s, 0 if there is none *)
IndexOf(s, c) ==
    IF Contains(s, c)
    THEN CHOOSE i \in 1..Len(s) : s[i] = c /\ \A j \in 1..(i - 1) : s[j] # c
    ELSE 0

(* s.split(sep) for a one-character separator *)
RECURSIVE split(_, _)
split(s, sep) ==
    IF ~Contains(s, sep) THEN <<s>>
    ELSE LET i == IndexOf(s, sep)
         IN <<SubSeq(s, 1, i - 1)>> \o split(SubSeq(s, i + 1, Len(s)), sep)

(* urlparse(url), for urls without params, query and fragment: the scheme
   is what precedes the first ":" when that is non-empty and has no "/";
   the netloc follows a leading "//" and ends before the next "/"; the
   path is the rest *)
urlparse(url) ==
    LET i == IndexOf(url, ":")
        hasScheme == i > 1 /\ \A j \in 1..(i - 1) : url[j] # "/"
        rest == IF hasScheme THEN SubSeq(url, i + 1, Len(url)) ELSE url
        hasNetloc == Len(rest) >= 2 /\ rest[1] = "/" /\ rest[2] = "/"
        after == SubSeq(rest, 3, Len(rest))
        k == IndexOf(after, "/")
    IN IF hasNetloc
       THEN [netloc |-> IF k = 0 THEN after ELSE SubSeq(after, 1, k - 1),
             path   |-> IF k = 0 THEN <<>> ELSE SubSeq(after, k, Len(after))]
       ELSE [netloc |-> <<>>, path |-> rest]

(* truth value of what poke returned, as tested by "while not" *)
Truthy(v) == v # 0

Return(v) == [raised |-> FALSE, value |-> v, exc |-> "none"]
Raise(e)  == [raised |-> TRUE, value |-> 0, exc |-> e]

(* timedelta.seconds of a non-negative difference of two datetimes *)
timedelta_seconds(d) == d % SecondsPerDay

-----------------------------------------------------------------------------
(* What the collaborators (hooks) can hand to one poke *)

IntCell(i) == [t |-> "int", n |-> i, s |-> <<>>]
StrCell(x) == [t |-> "str", n |-> 0, s |-> x]
NoneCell   == [t |-> "none", n |-> 0, s |-> <<>>]

Cells == {IntCell(0), IntCell(1), IntCell(-1), IntCell(10),
          StrCell(<<>>), StrCell(<<"0">>), StrCell(<<"x">>),
          StrCell(<<"0", "0">>), NoneCell}

(* hook.get_records(sql): a list of rows, each a list of cells *)
SqlRecordSets ==
    {<<>>} \cup {<<<<c>>>> : c \in Cells}
           \cup {<<<<c, d>>, <<d>>>> : c \in Cells, d \in {IntCell(0), StrCell(<<"x">>)}}

SqlInputs == {[kind |-> "records", records |-> r] : r \in SqlRecordSets}

(* HttpHook.run: a response, or AirflowException(str(status) + ":" + reason)
   for a failure status, or an error of the requests library *)
HttpStatuses == {404, 403, 500}
StatusMessage(status) == NatToStr(status) \o <<":">>

HttpRunResults ==
    {[kind |-> "response", message |-> <<>>]}
    \cup {[kind |-> "AirflowException", message |-> StatusMessage(st)] : st \in HttpStatuses}
    \cup {[kind |-> "ConnectionError", message |-> <<>>]}

(* self.response_check(response): what the user's function does *)
ResponseCheckResults ==
    {[kind |-> "return", value |-> v, message |-> <<>>] : v \in {0, 1}}
    \cup {[kind |-> "AirflowException", value |-> 0, message |-> m] : m \in {<<"b", "a", "d">>, StatusMessage(404)}}
    \cup {[kind |-> "ValueError", value |-> 0, message |-> <<>>]}

HttpInputs == {[kind |-> "http", run |-> r, check |-> c] :
                   r \in HttpRunResults, c \in ResponseCheckResults}

(* snakebite client.ls([filepath]): entries, or an error while listing *)
HdfsListings ==
    {[kind |-> "entries", n |-> n] : n \in {0, 1, 2}}
    \cup {[kind |-> "FileNotFoundException", n |-> 0],
          [kind |-> "ConnectionError", n |-> 0]}

HdfsInputs == {[kind |-> "hdfs", ls |-> l] : l \in HdfsListings}

NoInput == [kind |-> "none"]

Kinds == {"BaseSensorOperator", "SqlSensor", "HdfsSensor", "TimeDeltaSensor",
          "HttpSensor", "HivePartitionSensor", "S3KeySensor",
          "S3PrefixSensor", "ExternalTaskSensor", "TimeSensor"}

(* the sensors that are given a connection id which the model lets be
   absent from the repository *)
ConnSensors == {"SqlSensor", "HivePartitionSensor", "HdfsSensor",
                "S3KeySensor", "S3PrefixSensor"}

(* the thrift client: the reply to get_partitions_by_filter(..., 1) for a
   table with keys partition keys, an error of that call, or an error of
   trans.open().  A table without partition keys has no partitions: the
   server finds nothing in it or rejects the filter. *)
PartitionReplies ==
    {[kind |-> "partitions", keys |-> 1, n |-> n] : n \in {0, 1}}
    \cup {[kind |-> "partitions", keys |-> 0, n |-> 0]}
    \cup {[kind |-> "MetaException", keys |-> k, n |-> 0] : k \in {0, 1}}
    \cup {[kind |-> "TTransportException", keys |-> 1, n |-> 0]}

HiveInputs == {[kind |-> "hive", reply |-> r] : r \in PartitionReplies}

(* S3Hook.check_for_key / check_for_wildcard_key / check_for_prefix *)
S3Replies ==
    {[exc |-> "none", found |-> f] : f \in {0, 1}}
    \cup {[exc |-> "S3ResponseError", found |-> 0]}

S3Inputs == {[kind |-> "s3", reply |-> r] : r \in S3Replies}

(* rows of the task_instance table *)
TaskInstances ==
    {[dag_id |-> "dag", task_id |-> "task", state |-> st, execution_date |-> e] :
        st \in {"success", "failed"}, e \in {0, 1}}
    \cup {[dag_id |-> "other", task_id |-> "task", state |-> "success", execution_date |-> 1],
          [dag_id |-> "dag", task_id |-> "other", state |-> "success", execution_date |-> 1]}

TaskInstanceTables == {t \in SUBSET TaskInstances : Cardinality(t) <= 2}

ExternalTaskInputs == {[kind |-> "ti", table |-> t] : t \in TaskInstanceTables}

PokeInputs(k) == CASE k = "SqlSensor"  -> SqlInputs
                   [] k = "HttpSensor" -> HttpInputs
                   [] k = "HdfsSensor" -> HdfsInputs
                   [] k = "HivePartitionSensor" -> HiveInputs
                   [] k \in {"S3KeySensor", "S3PrefixSensor"} -> S3Inputs
                   [] k = "ExternalTaskSensor" -> ExternalTaskInputs
                   [] OTHER            -> {NoInput}

(* context['execution_date'], context['dag'].schedule_interval *)
Contexts == {[execution_date |-> 0, schedule_interval |-> si] : si \in {-1, 1, 3}}
NoInterval == -1
Deltas == {0, 2}

ContextsOf(k) ==
    CASE k = "TimeDeltaSensor" -> Contexts
      [] OTHER -> {[execution_date |-> 1, schedule_interval |-> NoInterval]}

-----------------------------------------------------------------------------
(* Construction of the sensors *)

(* bucket_name=None *)
NoName == <<"None">>

(* execution_delta=None, or a timedelta of v seconds *)
NoDelta == [set |-> FALSE, v |-> 0]
Timedelta(v) == [set |-> TRUE, v |-> v]

(* the keyword arguments of the constructors, with their defaults *)
NoArgs == [sql |-> "SELECT 1", filepath |-> "/data/file", endpoint |-> "api",
           table |-> <<>>, schema |-> <<"d", "e", "f", "a", "u", "l", "t">>,
           partition |-> "ds='{{ ds }}'",
           bucket_name |-> NoName, bucket_key |-> <<>>,
           wildcard_match |-> FALSE, prefix |-> "prefix",
           target_time |-> 0,
           external_dag_id |-> "dag", external_task_id |-> "task",
           allowed_states |-> {}, execution_delta |-> NoDelta]

HiveTables == {<<"t">>, <<"d", ".", "t">>, <<"a", ".", "b", ".", "c">>}

BucketKeys == {<<"s", "3", ":", "/", "/", "b", "/", "k">>,
               <<"s", "3", ":", "/", "/", "b", "/", "/", "k">>,
               <<"s", "3", ":", "/", "/", "b">>,
               <<"s", "3", ":", "/", "/", "/", "k">>,
               <<"b", "/", "k">>,
               <<"/", "k">>,
               <<"k">>}

TargetTimes == {1, 3, 43201}

CtorArgs(k) ==
    CASE k = "HivePartitionSensor" ->
            {[NoArgs EXCEPT !.table = t] : t \in HiveTables}
      [] k = "S3KeySensor" ->
            {[NoArgs EXCEPT !.bucket_key = key, !.bucket_name = bn] :
                key \in BucketKeys, bn \in {NoName, <<"b">>}}
      [] k = "S3PrefixSensor" ->
            {[NoArgs EXCEPT !.bucket_name = <<"b">>]}
      [] k = "ExternalTaskSensor" ->
            {[NoArgs EXCEPT !.allowed_states = st, !.execution_delta = ed] :
                st \in {{}, {"success"}, {"success", "failed"}},
                ed \in {NoDelta, Timedelta(0), Timedelta(1)}}
      [] k = "TimeSensor" ->
            {[NoArgs EXCEPT !.target_time = t] : t \in TargetTimes}
      [] OTHER -> {NoArgs}

Constructed(a, hh) ==
    [exc |-> "none", attrs |-> a, has_hook |-> hh,
     hooks_made |-> IF hh THEN 1 ELSE 0]

CtorRaises(e, a) ==
    [exc |-> e, attrs |-> a, has_hook |-> FALSE, hooks_made |-> 0]

(* session.query(DB).filter(DB.conn_id == conn_id).first() and the raise
   that follows it *)
SqlSensor_init(a, known) ==
    IF ~known THEN CtorRaises("AirflowException", a) ELSE Constructed(a, TRUE)

S3KeySensor_init(a, known) ==
    IF ~known THEN CtorRaises("AirflowException", a)
    ELSE IF a.bucket_name = NoName
         THEN LET parsed_url == urlparse(a.bucket_key)
              IN IF parsed_url.netloc = <<>>
                 THEN CtorRaises("AirflowException", a)
                 ELSE IF Len(parsed_url.path) = 0
                      THEN CtorRaises("IndexError", a)
                      ELSE Constructed(
                             [a EXCEPT !.bucket_name = parsed_url.netloc,
                                       !.bucket_key =
                                           IF parsed_url.path[1] = "/"
                                           THEN Tail(parsed_url.path)
                                           ELSE parsed_url.path],
                             FALSE)
         ELSE Constructed(a, FALSE)

S3PrefixSensor_init(a, known) ==
    IF ~known THEN CtorRaises("AirflowException", a) ELSE Constructed(a, FALSE)

ExternalTaskSensor_init(a) ==
    Constructed([a EXCEPT !.allowed_states =
                    IF a.allowed_states = {} THEN {"success"}
                    ELSE a.allowed_states],
                FALSE)

(* HivePartitionSensor, HdfsSensor, TimeSensor, TimeDeltaSensor and the
   base class only store their arguments; HttpSensor also makes its hook *)
Construct(k, a, known) ==
    CASE k = "SqlSensor"          -> SqlSensor_init(a, known)
      [] k = "S3KeySensor"        -> S3KeySensor_init(a, known)
      [] k = "S3PrefixSensor"     -> S3PrefixSensor_init(a, known)
      [] k = "ExternalTaskSensor" -> ExternalTaskSensor_init(a)
      [] k = "HttpSensor"         -> Constructed(a, TRUE)
      [] OTHER                    -> Constructed(a, FALSE)

-----------------------------------------------------------------------------
(* The poke methods *)

BaseSensorOperator_poke == Raise("AirflowException")

SqlSensor_poke_zero_only(records) ==
    IF records = <<>>
    THEN Return(0)
    ELSE IF str(records[1][1]) = <<"0">> THEN Return(0) ELSE Return(1)

SqlSensor_poke(records) ==
    IF records = <<>>
    THEN Return(0)
    ELSE IF Len(records[1]) = 0
         THEN Raise("IndexError")
         ELSE IF str(records[1][1]) \in {<<"0">>, <<>>}
              THEN Return(0)
              ELSE Return(1)

HdfsSensor_poke_only_not_found(ls) ==
    CASE ls.kind = "entries" -> Return(1)
      [] ls.kind = "FileNotFoundException" -> Return(0)
      [] OTHER -> Raise(ls.kind)

HdfsSensor_poke_no_try(ls) ==
    IF ls.kind = "entries" THEN Return(1) ELSE Raise(ls.kind)

HdfsSensor_poke(ls) ==
    IF ls.kind = "entries" THEN Return(1) ELSE Return(0)

TimeDeltaSensor_target_no_interval(ctx, d) == ctx.execution_date + d

TimeDeltaSensor_target(ctx, d) == ctx.execution_date + ctx.schedule_interval + d

TimeDeltaSensor_poke_at_target(t, ctx, d) ==
    IF ctx.schedule_interval = NoInterval
    THEN Raise("TypeError")
    ELSE Return(IF t >= TimeDeltaSensor_target(ctx, d) THEN 1 ELSE 0)

TimeDeltaSensor_poke(t, ctx, d) ==
    IF ctx.schedule_interval = NoInterval
    THEN Raise("TypeError")
    ELSE Return(IF t > TimeDeltaSensor_target(ctx, d) THEN 1 ELSE 0)

HttpSensor_except_any(message) == Return(1)

(* the except clause of HttpSensor.poke and the statement after it *)
HttpSensor_except(message) ==
    IF startswith(message, <<"4", "0", "4">>) THEN Return(0) ELSE Return(1)

HttpSensor_poke(run, check, has_check) ==
    IF run.kind = "AirflowException" THEN HttpSensor_except(run.message)
    ELSE IF run.kind # "response" THEN Raise(run.kind)
    ELSE IF has_check
         THEN CASE check.kind = "return" -> Return(check.value)
                [] check.kind = "AirflowException" -> HttpSensor_except(check.message)
                [] OTHER -> Raise(check.kind)
         ELSE Return(1)

(* datetime.now().time(): the time of day of the clock *)
datetime_time(t) == t % SecondsPerDay

TimeSensor_poke_at_target(t, a) ==
    Return(IF datetime_time(t) >= a.target_time THEN 1 ELSE 0)

TimeSensor_poke(t, a) ==
    Return(IF datetime_time(t) > a.target_time THEN 1 ELSE 0)

ExternalTaskSensor_dttm_no_delta(ctx, a) == ctx.execution_date

(* the timestamp the query filters on; a zero timedelta is falsy *)
ExternalTaskSensor_dttm(ctx, a) ==
    IF a.execution_delta.set /\ a.execution_delta.v # 0
    THEN ctx.execution_date - a.execution_delta.v
    ELSE ctx.execution_date

ExternalTaskSensor_poke(ctx, a, table) ==
    LET dttm == ExternalTaskSensor_dttm(ctx, a)
        count == Cardinality({ti \in table :
                    /\ ti.dag_id = a.external_dag_id
                    /\ ti.task_id = a.external_task_id
                    /\ ti.state \in a.allowed_states
                    /\ ti.execution_date = dttm})
    IN Return(count)

(* S3KeySensor.poke and S3PrefixSensor.poke return what the hook returns *)
S3Sensor_poke(reply) ==
    IF reply.exc # "none" THEN Raise(reply.exc) ELSE Return(reply.found)

(* BaseHook.get_connection(conn_id), called by the constructors of the
   hooks *)
get_connection(known) ==
    IF known THEN Return(1) ELSE Raise("AirflowException")

(* HiveMetastoreHook.check_for_partition on a transport in state tr *)
check_for_partition(tr, reply) ==
    CASE reply.kind = "TTransportException" ->
            [outcome |-> Raise(reply.kind), transport |-> tr]
      [] reply.kind = "MetaException" ->
            [outcome |-> Raise(reply.kind), transport |-> "open"]
      [] OTHER ->
            [outcome |-> Return(IF reply.n > 0 THEN 1 ELSE 0),
             transport |-> "closed"]

Effect(outcome, a, hh, made, tr) ==
    [outcome |-> outcome, attrs |-> a, has_hook |-> hh, hooks_made |-> made,
     transport |-> tr]

HivePartitionSensor_names_keeps_table(a) ==
    LET parts == split(a.table, ".")
    IN [a EXCEPT !.schema = parts[1]]

HivePartitionSensor_names_swapped(a) ==
    LET parts == split(a.table, ".")
    IN [a EXCEPT !.schema = parts[2], !.table = parts[1]]

(* self.schema, self.table = self.table.split('.') *)
HivePartitionSensor_names(a) ==
    LET parts == split(a.table, ".")
    IN [a EXCEPT !.schema = parts[1], !.table = parts[2]]

HivePartitionSensor_hooks_made_each_poke(hh, made) == made + 1

(* if not hasattr(self, 'hook'): self.hook = hooks.HiveMetastoreHook(...) *)
HivePartitionSensor_hooks_made(hh, made) == IF hh THEN made ELSE made + 1

HivePartitionSensor_poke(a, hh, made, tr, known, reply) ==
    LET dotted == Contains(a.table, ".")
    IN IF dotted /\ Len(split(a.table, ".")) # 2
       THEN Effect(Raise("ValueError"), a, hh, made, tr)
       ELSE LET a1 == IF dotted THEN HivePartitionSensor_names(a) ELSE a
            IN IF ~hh /\ get_connection(known).raised
               THEN Effect(get_connection(known), a1, hh, made, tr)
               ELSE LET r == check_for_partition(tr, reply)
                    IN Effect(r.outcome, a1, TRUE,
                              HivePartitionSensor_hooks_made(hh, made),
                              r.transport)

poke(k, input, t, ctx, d, has_check) ==
    CASE k = "BaseSensorOperator" -> BaseSensorOperator_poke
      [] k = "SqlSensor"          -> SqlSensor_poke(input.records)
      [] k = "HdfsSensor"         -> HdfsSensor_poke(input.ls)
      [] k = "TimeDeltaSensor"    -> TimeDeltaSensor_poke(t, ctx, d)
      [] k = "HttpSensor"         -> HttpSensor_poke(input.run, input.check, has_check)

(* self.poke(context) with what it does to the sensor: HdfsSensor and the
   S3 sensors make a new hook in every poke, HdfsSensor resolves its
   connection there *)
poke_effect(k, input, t, ctx, d, has_check, a, hh, made, tr, known) ==
    CASE k = "HivePartitionSensor" ->
            HivePartitionSensor_poke(a, hh, made, tr, known, input.reply)
      [] k = "HdfsSensor" ->
            Effect(IF get_connection(known).raised THEN get_connection(known)
                   ELSE HdfsSensor_poke(input.ls),
                   a, hh, made + 1, tr)
      [] k \in {"S3KeySensor", "S3PrefixSensor"} ->
            Effect(S3Sensor_poke(input.reply), a, hh, made + 1, tr)
      [] k = "ExternalTaskSensor" ->
            Effect(ExternalTaskSensor_poke(ctx, a, input.table), a, hh, made, tr)
      [] k = "TimeSensor" ->
            Effect(TimeSensor_poke(t, a), a, hh, made, tr)
      [] OTHER ->
            Effect(poke(k, input, t, ctx, d, has_check), a, hh, made, tr)

-----------------------------------------------------------------------------
(* BaseSensorOperator.execute *)

AfterPoke_never_leaves(outcome) ==
    IF outcome.raised THEN "error" ELSE "sleep"

AfterPoke_swallows(outcome) ==
    IF ~outcome.raised /\ Truthy(outcome.value) THEN "success" ELSE "sleep"

AfterPoke_checks_timeout(outcome) ==
    IF outcome.raised THEN "error"
    ELSE IF timedelta_seconds(now' - started_at) > timeout THEN "timeout"
    ELSE IF Truthy(outcome.value) THEN "success" ELSE "sleep"

(* where the run goes after poke: the exception leaves execute, a truthy
   result leaves the while loop, a falsy one enters its body *)
AfterPoke(outcome) ==
    IF outcome.raised THEN "error"
    ELSE IF Truthy(outcome.value) THEN "success" ELSE "sleep"

(* An exception leaving execute: its class, its message and the numbers
   it carries.  The message of an exception raised by poke is not
   modelled. *)
NoException == [cls |-> "none", message |-> "", data |-> <<>>]

Raised(cls) == [cls |-> cls, message |-> "", data |-> <<>>]

(* AirflowSensorTimeout('Snap. Time is OUT.') *)
AirflowSensorTimeout ==
    [cls |-> "AirflowSensorTimeout", message |-> "Snap. Time is OUT.",
     data |-> <<>>]

(* the condition of the if that raises AirflowSensorTimeout *)
TimedOut(elapsed, tmo) == timedelta_seconds(elapsed) > tmo

Init ==
    /\ kind \in Kinds
    /\ poke_interval \in PokeIntervals
    /\ timeout \in Timeouts
    /\ response_check \in (IF kind = "HttpSensor" THEN BOOLEAN ELSE {FALSE})
    /\ delta \in (IF kind = "TimeDeltaSensor" THEN Deltas ELSE {0})
    /\ context \in ContextsOf(kind)
    /\ conn_known \in (IF kind \in ConnSensors THEN BOOLEAN ELSE {TRUE})
    /\ args \in CtorArgs(kind)
    /\ LET made == Construct(kind, args, conn_known)
       IN /\ ctor_exc = made.exc
          /\ attrs = made.attrs
          /\ has_hook = made.has_hook
          /\ hooks_made = made.hooks_made
          /\ pc = IF made.exc = "none" THEN "pending" ELSE "config_error"
    /\ transport = "closed"
    /\ hookCalls = 0
    /\ lastCall = [method |-> "none"]
    /\ exception = NoException
    /\ now = 0
    /\ started_at = NoTime
    /\ pokes = 0
    /\ sleeps = 0
    /\ lastPokeAt = NoTime
    /\ lastInput = NoInput
    /\ results = <<>>
    /\ checks = 0
    /\ lastElapsed = NoTime

(* time passes between the construction of the operator and its execution *)
Delay ==
    /\ pc = "pending"
    /\ now < MaxDelay
    /\ now' = now + 1
    /\ UNCHANGED <<config, pc, started_at, pokes, sleeps, lastPokeAt,
                   lastInput, results, checks, lastElapsed, sensor, hook, exception>>

ExecuteStart_sleeps_first ==
    /\ pc = "pending"
    /\ started_at' = now
    /\ pc' = "sleep"
    /\ UNCHANGED <<config, now, pokes, sleeps, lastPokeAt, lastInput,
                   results, checks, lastElapsed,
                   sensor, hook, exception>>

ExecuteStart_at_construction ==
    /\ pc = "pending"
    /\ started_at' = 0
    /\ pc' = "poke"
    /\ UNCHANGED <<config, now, pokes, sleeps, lastPokeAt, lastInput,
                   results, checks, lastElapsed,
                   sensor, hook, exception>>

ExecuteStart ==
    /\ pc = "pending"
    /\ started_at' = now
    /\ pc' = "poke"
    /\ UNCHANGED <<config, now, pokes, sleeps, lastPokeAt, lastInput,
                   results, checks, lastElapsed,
                   sensor, hook, exception>>

(* one call of self.poke(context), which takes one of the given durations *)
PokeTaking(durations) ==
    /\ pc = "poke"
    /\ pokes < MaxPokes
    /\ \E input \in PokeInputs(kind), dur \in durations :
          LET eff == poke_effect(kind, input, now, context, delta,
                                 response_check, attrs, has_hook, hooks_made,
                                 transport, conn_known)
          IN /\ lastInput' = input
             /\ results' = Append(results, eff.outcome)
             /\ lastPokeAt' = now
             /\ now' = now + dur
             /\ pc' = AfterPoke(eff.outcome)
             /\ exception' = IF eff.outcome.raised
                             THEN Raised(eff.outcome.exc)
                             ELSE exception
             /\ attrs' = eff.attrs
             /\ has_hook' = eff.has_hook
             /\ hooks_made' = eff.hooks_made
             /\ transport' = eff.transport
    /\ pokes' = pokes + 1
    /\ UNCHANGED <<config, started_at, sleeps, checks, lastElapsed, hook>>

Poke == PokeTaking(PokeDurations)

(* sleep(self.poke_interval), which returns late by one of the given
   overruns *)
SleepOver(overruns) ==
    /\ pc = "sleep"
    /\ \E over \in overruns : now' = now + poke_interval + over
    /\ sleeps' = sleeps + 1
    /\ pc' = "check"
    /\ UNCHANGED <<config, started_at, pokes, lastPokeAt, lastInput,
                   results, checks, lastElapsed, sensor, hook, exception>>

Sleep == SleepOver(SleepOverruns)

CheckTimeout ==
    /\ pc = "check"
    /\ lastElapsed' = now - started_at
    /\ checks' = checks + 1
    /\ pc' = IF TimedOut(now - started_at, timeout) THEN "timeout" ELSE "poke"
    /\ exception' = IF TimedOut(now - started_at, timeout)
                    THEN AirflowSensorTimeout
                    ELSE exception
    /\ UNCHANGED <<config, now, started_at, pokes, sleeps, lastPokeAt,
                   lastInput, results, sensor, hook>>

Next == Delay \/ ExecuteStart \/ Poke \/ Sleep \/ CheckTimeout

Spec == Init /\ [][Next]_vars

(* the same run on a clock that only advances in sleep, by exactly
   poke_interval: poke takes no time and sleep does not overrun *)
PokeExact == PokeTaking({0})

SleepExact == SleepOver({0})

NextExact == Delay \/ ExecuteStart \/ PokeExact \/ SleepExact \/ CheckTimeout

SpecExact == Init /\ [][NextExact]_vars

-----------------------------------------------------------------------------
(* HiveMetastoreHook, called directly.  Every method opens the transport,
   makes its thrift calls and closes the transport; a statement that
   raises leaves the method at once. *)

(* what the metastore does in one call of a method: trans.open() fails,
   or yields a table with keys partition keys and n objects, or the
   thrift call number failing (1 or 2) raises *)
MetastoreReplies ==
    {[kind |-> "ok", keys |-> k, n |-> n, failing |-> 0] :
        k \in {0, 1, 2}, n \in {0, 1, 2}}
    \cup {[kind |-> "MetaException", keys |-> 1, n |-> 0, failing |-> f] :
             f \in {1, 2}}
    \cup {[kind |-> "TTransportException", keys |-> 1, n |-> 0, failing |-> 0]}

HookResult(outcome, tr) == [outcome |-> outcome, transport |-> tr]

(* a method that makes calls thrift calls between open() and close() *)
OpenCallClose(tr, reply, calls) ==
    CASE reply.kind = "TTransportException" -> HookResult(Raise(reply.kind), tr)
      [] reply.kind = "MetaException" /\ reply.failing <= calls ->
            HookResult(Raise(reply.kind), "open")
      [] OTHER -> HookResult(Return(reply.n), "closed")

get_table(tr, reply) == OpenCallClose(tr, reply, 1)

get_tables(tr, reply) == OpenCallClose(tr, reply, 2)

get_databases(tr, reply) == OpenCallClose(tr, reply, 1)

get_partitions(tr, reply) ==
    CASE reply.kind = "TTransportException" -> HookResult(Raise(reply.kind), tr)
      [] reply.kind = "MetaException" -> HookResult(Raise(reply.kind), "open")
      [] reply.keys = 0 -> HookResult(Raise("AirflowException"), "open")
      [] OTHER -> HookResult(Return(reply.n), "closed")

HookCall(method, reply, r) ==
    /\ hookCalls < MaxHookCalls
    /\ hookCalls' = hookCalls + 1
    /\ lastCall' = [method |-> method, reply |-> reply, outcome |-> r.outcome]
    /\ transport' = r.transport
    /\ UNCHANGED <<config, pc, now, started_at, pokes, sleeps, lastPokeAt,
                   lastInput, results, checks, lastElapsed, attrs, has_hook,
                   hooks_made, exception>>

CheckForPartition ==
    \E reply \in PartitionReplies :
        HookCall("check_for_partition", reply, check_for_partition(transport, reply))

GetTable ==
    \E reply \in MetastoreReplies :
        HookCall("get_table", reply, get_table(transport, reply))

GetTables ==
    \E reply \in MetastoreReplies :
        HookCall("get_tables", reply, get_tables(transport, reply))

GetDatabases ==
    \E reply \in MetastoreReplies :
        HookCall("get_databases", reply, get_databases(transport, reply))

GetPartitions ==
    \E reply \in MetastoreReplies :
        HookCall("get_partitions", reply, get_partitions(transport, reply))

(* max_partition: the metastore's table and partitions.  pnames are the
   names of table.partitionKeys, parts the values of each partition the
   call returns; keys and n are their lengths. *)
PartitionValues == {<<"9">>, <<"1", "0">>, <<"2">>}

SubPartitionValues == {<<"1">>, <<"3">>}

PartitionLists(rows) ==
    {<<>>} \cup {<<a>> : a \in rows} \cup {<<a, b>> : a \in rows, b \in rows}

TableReply(pnames, parts) ==
    [kind |-> "ok", keys |-> Len(pnames), n |-> Len(parts), failing |-> 0,
     pnames |-> pnames, parts |-> parts]

MaxPartitionReplies ==
    {TableReply(<<>>, <<>>)}
    \cup {TableReply(<<"ds">>, ps) :
             ps \in PartitionLists({<<v>> : v \in PartitionValues})}
    \cup {TableReply(<<"ds", "hr">>, ps) :
             ps \in PartitionLists({<<v, w>> : v \in PartitionValues,
                                               w \in SubPartitionValues})}
    \cup {[kind |-> k, keys |-> 1, n |-> 0, failing |-> 1,
           pnames |-> <<"ds">>, parts |-> <<>>] :
             k \in {"MetaException", "TTransportException"}}

(* the field argument: None (or ''), a partition key, or another name *)
NoField == ""

Fields == {NoField, "ds", "hr", "zz"}

(* dict(zip(pnames, values)) *)
zip_dict(pnames, values) ==
    LET len == IF Len(pnames) < Len(values) THEN Len(pnames) ELSE Len(values)
    IN [k \in {pnames[i] : i \in 1..len} |->
           values[CHOOSE i \in 1..len :
                     pnames[i] = k /\ \A j \in (i + 1)..len : pnames[j] # k]]

(* [dict(zip(pnames, p.values)) for p in parts] *)
partition_dicts(reply) ==
    [i \in 1..Len(reply.parts) |-> zip_dict(reply.pnames, reply.parts[i])]

(* ord(c) for the characters of the partition values *)
Ord(c) == CHOOSE d \in 0..9 : Digit(d) = c

(* a < b for two Python strings *)
RECURSIVE StrLess(_, _)
StrLess(a, b) ==
    IF Len(b) = 0 THEN FALSE
    ELSE IF Len(a) = 0 THEN TRUE
    ELSE IF a[1] = b[1] THEN StrLess(Tail(a), Tail(b))
    ELSE Ord(a[1]) < Ord(b[1])

(* max(values) of a non-empty list of strings: the first of the greatest *)
RECURSIVE max(_)
max(values) ==
    IF Len(values) = 1 THEN values[1]
    ELSE LET m == max(Tail(values))
         IN IF StrLess(values[1], m) THEN m ELSE values[1]

max_partition_given_field(tr, reply, field) ==
    LET g == get_partitions(tr, reply)
        parts == partition_dicts(reply)
    IN IF g.outcome.raised THEN g
       ELSE IF Len(parts) = 0 THEN HookResult(Return(NoneCell), g.transport)
       ELSE IF field = NoField
            THEN HookResult(Raise("AirflowException"), g.transport)
       ELSE IF \E i \in 1..Len(parts) : field \notin DOMAIN parts[i]
            THEN HookResult(Raise("KeyError"), g.transport)
       ELSE HookResult(
              Return(StrCell(max([i \in 1..Len(parts) |-> parts[i][field]]))),
              g.transport)

max_partition(tr, reply, field) ==
    LET g == get_partitions(tr, reply)
        parts == partition_dicts(reply)
    IN IF g.outcome.raised THEN g
       ELSE IF Len(parts) = 0 THEN HookResult(Return(NoneCell), g.transport)
       ELSE LET single == Cardinality(DOMAIN parts[1]) = 1
                f == IF single THEN CHOOSE k \in DOMAIN parts[1] : TRUE
                     ELSE field
            IN IF ~single /\ field = NoField
               THEN HookResult(Raise("AirflowException"), g.transport)
               ELSE IF \E i \in 1..Len(parts) : f \notin DOMAIN parts[i]
                    THEN HookResult(Raise("KeyError"), g.transport)
                    ELSE HookResult(
                           Return(StrCell(
                             max([i \in 1..Len(parts) |-> parts[i][f]]))),
                           g.transport)

MaxPartition ==
    \E reply \in MaxPartitionReplies, field \in Fields :
        LET r == max_partition(transport, reply, field)
        IN /\ hookCalls < MaxHookCalls
           /\ hookCalls' = hookCalls + 1
           /\ lastCall' = [method |-> "max_partition", reply |-> reply,
                           outcome |-> r.outcome, field |-> field]
           /\ transport' = r.transport
           /\ UNCHANGED <<config, pc, now, started_at, pokes, sleeps,
                          lastPokeAt, lastInput, results, checks, lastElapsed,
                          attrs, has_hook, hooks_made, exception>>

(* a HiveMetastoreHook made for a known connection *)
InitHook ==
    /\ Init
    /\ kind = "HivePartitionSensor"
    /\ conn_known
    /\ args.table = <<"t">>
    /\ poke_interval = DefaultPokeInterval
    /\ timeout = DefaultTimeout

NextHook ==
    \/ CheckForPartition \/ GetTable \/ GetTables \/ GetDatabases
    \/ GetPartitions \/ MaxPartition

SpecHook == InitHook /\ [][NextHook]_vars

-----------------------------------------------------------------------------
(* HiveServer2Hook.get_results and get_records *)

Statements == {<<"a">>, <<"b">>, <<"a", "b">>}

(* what a cursor does with a statement: cur.execute raises, or fetchall
   returns n rows *)
CursorReplies == {[kind |-> "rows", n |-> 0], [kind |-> "rows", n |-> 1],
                  [kind |-> "Pyhs2Exception", n |-> 0]}

(* the server: its answer to each statement *)
Servers == [Statements -> CursorReplies]

(* the hql argument: one string, or a list of at most two strings *)
HqlString(st) == [basestring |-> TRUE, text |-> st, list |-> <<>>]

HqlList(l) == [basestring |-> FALSE, text |-> <<>>, list |-> l]

HqlInputs ==
    {HqlString(st) : st \in Statements}
    \cup {HqlList(l) :
             l \in {<<>>} \cup {<<a>> : a \in Statements}
                         \cup {<<a, b>> : a \in Statements, b \in Statements}}

(* the items "for statement in hql" goes through: the elements of a list,
   the characters of a string *)
iterate(hql) ==
    IF hql.basestring THEN [i \in 1..Len(hql.text) |-> <<hql.text[i]>>]
    ELSE hql.list

(* cur.fetchall() and cur.getSchema() after cur.execute(statement) *)
fetchall(server, statement) ==
    [i \in 1..server[statement].n |-> [stmt |-> statement, row |-> i]]

getSchema(statement) == <<[columnName |-> statement]>>

NoResults == [data |-> <<>>, header |-> <<>>]

(* the for loop of get_results *)
RECURSIVE run_statements(_, _, _, _)
run_statements(server, statements, res, executed) ==
    IF statements = <<>>
    THEN [outcome |-> Return(res), executed |-> executed]
    ELSE LET statement == Head(statements)
             records == fetchall(server, statement)
         IN IF server[statement].kind # "rows"
            THEN [outcome |-> Raise(server[statement].kind),
                  executed |-> Append(executed, statement)]
            ELSE run_statements(
                   server, Tail(statements),
                   IF records # <<>>
                   THEN [data |-> records, header |-> getSchema(statement)]
                   ELSE res,
                   Append(executed, statement))

get_results_no_wrap(server, hql) ==
    run_statements(server, iterate(hql), NoResults, <<>>)

(* if isinstance(hql, basestring): hql = [hql] *)
get_results(server, hql) ==
    LET hql_list == IF hql.basestring THEN HqlList(<<hql.text>>) ELSE hql
    IN run_statements(server, iterate(hql_list), NoResults, <<>>)

get_records(server, hql) ==
    LET r == get_results(server, hql)
    IN IF r.outcome.raised THEN r
       ELSE [r EXCEPT !.outcome = Return(r.outcome.value.data)]

HiveServer2Call(method, server, hql, r) ==
    /\ hookCalls < MaxHookCalls
    /\ hookCalls' = hookCalls + 1
    /\ lastCall' = [method |-> method, server |-> server, hql |-> hql,
                    outcome |-> r.outcome, executed |-> r.executed]
    /\ UNCHANGED <<config, pc, now, started_at, pokes, sleeps, lastPokeAt,
                   lastInput, results, checks, lastElapsed, sensor, exception>>

GetResults ==
    \E server \in Servers, hql \in HqlInputs :
        HiveServer2Call("get_results", server, hql, get_results(server, hql))

GetRecords ==
    \E server \in Servers, hql \in HqlInputs :
        HiveServer2Call("get_records", server, hql, get_records(server, hql))

(* a HiveServer2Hook; no sensor runs *)
InitHiveServer2 ==
    /\ Init
    /\ kind = "BaseSensorOperator"
    /\ poke_interval = DefaultPokeInterval
    /\ timeout = DefaultTimeout

NextHiveServer2 == GetResults \/ GetRecords

SpecHiveServer2 == InitHiveServer2 /\ [][NextHiveServer2]_vars

TypeOK ==
    /\ pc \in {"pending", "poke", "sleep", "check", "success", "timeout", "error",
             "config_error"}
    /\ transport \in {"closed", "open"}
    /\ hooks_made \in 0..MaxPokes
    /\ pokes \in 0..MaxPokes
    /\ sleeps \in 0..MaxPokes
    /\ checks \in 0..MaxPokes
    /\ Len(results) = pokes

-----------------------------------------------------------------------------
(* Derived notions used by the properties *)

Terminal == {"success", "timeout", "error", "config_error"}

Elapsed == now - started_at

(* the attempt on which poke first returned a truthy value, 0 if none *)
FirstTrue ==
    LET hits == {k \in 1..Len(results) :
                    ~results[k].raised /\ Truthy(results[k].value)}
    IN IF hits = {} THEN 0 ELSE CHOOSE k \in hits : \A j \in hits : k <= j

(* the attempt on which poke raised, 0 if none *)
FirstRaise ==
    LET hits == {k \in 1..Len(results) : results[k].raised}
    IN IF hits = {} THEN 0 ELSE CHOOSE k \in hits : \A j \in hits : k <= j

Phase(p) == CASE p = "pending" -> 0
              [] p \in {"poke", "sleep", "check"} -> 1
              [] OTHER -> 2

-----------------------------------------------------------------------------
(* C1: if poke first returns true on attempt k, execute has succeeded after
   exactly k calls to poke and k-1 sleeps of poke_interval, every earlier
   attempt having returned false; nothing follows the true result. *)
C1_SuccessAfterExactlyK ==
    /\ FirstTrue # 0 =>
          /\ pc = "success"
          /\ pokes = FirstTrue
          /\ sleeps = FirstTrue - 1
          /\ checks = FirstTrue - 1
          /\ \A j \in 1..(FirstTrue - 1) : results[j] = Return(0)
          /\ Elapsed >= (FirstTrue - 1) * poke_interval
    /\ pc = "success" => FirstTrue # 0

C1_Witness == pc = "success" /\ FirstTrue = 3 /\ sleeps = 2

(* C2: after each false poke and the following sleep the run fails with the
   timeout exactly when the time elapsed since started_at is greater than
   timeout, for every timeout > 0. *)
C2_TimeoutIffElapsedExceeds ==
    lastElapsed # NoTime /\ pc \in {"poke", "timeout"} /\ checks = sleeps
        => ((pc = "timeout") <=> (lastElapsed > timeout))

(* C3: once the elapsed time exceeds timeout the timeout is reported, and
   the elapsed time when it is raised is at most timeout + poke_interval. *)
C3_TimeoutWithinOneInterval ==
    /\ (checks > 0 /\ checks = sleeps /\ lastElapsed > timeout) => pc = "timeout"
    /\ pc = "timeout" => Elapsed <= timeout + poke_interval

(* C4: a condition that starts false and becomes true within the last
   poke_interval before the deadline started_at + timeout. *)
ReadyAt == TimeDeltaSensor_target(context, delta) + 1

Deadline == started_at + timeout

C4_Case ==
    /\ kind = "TimeDeltaSensor"
    /\ context.schedule_interval # NoInterval
    /\ pc \in {"success", "timeout"}
    /\ started_at < ReadyAt
    /\ Deadline - poke_interval <= ReadyAt
    /\ ReadyAt <= Deadline

(* C4 as stated: such a condition is observed by a further poke and the run
   ends in success rather than in a timeout. *)
C4_LateConditionObserved == C4_Case => pc = "success"

(* C4 amended: such a condition is observed, and the run succeeds, exactly
   when a poke is called at or after the moment it becomes true; otherwise
   the timeout is raised after the sleep with no further poke. *)
C4_ObservedIffPokedAfter ==
    C4_Case =>
        /\ (pc = "success") <=> (lastPokeAt >= ReadyAt)
        /\ pc = "timeout" =>
              /\ lastPokeAt < ReadyAt
              /\ pokes = sleeps
              /\ timedelta_seconds(lastElapsed) > timeout

C4_Witness ==
    /\ C4_Case
    /\ pc = "success"
    /\ pokes >= 2
    /\ lastPokeAt >= ReadyAt

(* C5: when poke raises, execute ends with that error at once: no sleep, no
   timeout check and no later poke follow; the base class poke always
   raises. *)
C5_PokeErrorPropagates ==
    /\ FirstRaise # 0 =>
          /\ pc = "error"
          /\ pokes = FirstRaise
          /\ sleeps = FirstRaise - 1
          /\ checks = FirstRaise - 1
          /\ now - lastPokeAt \in PokeDurations
    /\ pc = "error" => FirstRaise # 0
    /\ (kind = "BaseSensorOperator" /\ pokes > 0) =>
          /\ pc = "error"
          /\ pokes = 1
          /\ results[1] = Raise("AirflowException")

C5_Witness == pc = "error" /\ FirstRaise = 2 /\ sleeps = 1

(* C6: the state of a run only moves Pending -> Polling -> terminal;
   started_at is the clock at the start of execute, set before the first
   poke and never again; nothing changes once the run has ended. *)
C6_Step ==
    /\ Phase(pc') >= Phase(pc)
    /\ Phase(pc') <= Phase(pc) + 1
    /\ pc \in Terminal => UNCHANGED vars
    /\ (pc = "pending" /\ pc' # "pending") =>
          /\ pc' = "poke"
          /\ started_at' = now
          /\ pokes' = 0
    /\ pc = "pending" => started_at = NoTime
    /\ pc # "pending" => started_at' = started_at
    /\ pokes' > 0 => started_at' # NoTime /\ lastPokeAt' >= started_at'

C6_MonotonicRun == [][C6_Step]_vars

C6_Witness == pc = "timeout" /\ started_at = MaxDelay /\ pokes = 2

-----------------------------------------------------------------------------
(* HttpSensor.poke *)

HttpPoked == kind = "HttpSensor" /\ pokes > 0

LastOutcome == results[Len(results)]

Is404(message) == startswith(message, StatusMessage(404))

(* the GET failed, or the GET succeeded and the configured response check
   failed *)
HttpFailure ==
    IF lastInput.run.kind # "response"
    THEN lastInput.run
    ELSE IF response_check /\ lastInput.check.kind # "return"
         THEN lastInput.check
         ELSE [kind |-> "none", message |-> <<>>]

(* C7: when the GET or the response check fails with an error that is not a
   404, poke raises that error and returns nothing. *)
C7_Non404ErrorRaised ==
    (HttpPoked /\ HttpFailure.kind # "none" /\ ~Is404(HttpFailure.message))
        => LastOutcome = Raise(HttpFailure.kind)

(* C8: a 404 response gives false and no error; a successful response gives
   true without a response_check and exactly what response_check returns
   with one. *)
C8_HttpPokeResult ==
    HttpPoked =>
        /\ (lastInput.run.kind = "AirflowException" /\ Is404(lastInput.run.message))
              => LastOutcome = Return(0)
        /\ (lastInput.run.kind = "response" /\ ~response_check)
              => LastOutcome = Return(1)
        /\ (lastInput.run.kind = "response" /\ response_check
                /\ lastInput.check.kind = "return")
              => LastOutcome = Return(lastInput.check.value)

C8_Witness ==
    /\ HttpPoked
    /\ lastInput.run.kind = "AirflowException"
    /\ Is404(lastInput.run.message)
    /\ pokes = 2
    /\ pc = "sleep"

-----------------------------------------------------------------------------
(* SqlSensor.poke *)

SqlPoked == kind = "SqlSensor" /\ pokes > 0

FalseCells == {IntCell(0), StrCell(<<"0">>), StrCell(<<>>)}

(* C9: poke is true exactly when the query returns at least one row and
   the first cell of the first row is not one of 0, "0", ""; it is false
   otherwise, and no other cell matters. *)
C9_SqlPokeResult ==
    SqlPoked =>
        LET records == lastInput.records
        IN LastOutcome =
              IF Len(records) >= 1 /\ records[1][1] \notin FalseCells
              THEN Return(1)
              ELSE Return(0)

C9_Witness ==
    /\ SqlPoked
    /\ Len(lastInput.records) = 2
    /\ lastInput.records[1][1] = StrCell(<<"0", "0">>)
    /\ lastInput.records[1][2] = IntCell(0)
    /\ pc = "success"

-----------------------------------------------------------------------------
(* HdfsSensor.poke *)

(* a poke that got its client and listed the path *)
HdfsPoked == kind = "HdfsSensor" /\ pokes > 0 /\ conn_known

(* C10: poke returns false without raising when the listing raises
   not-found, and true when the listing returns at least one entry. *)
C10_HdfsNotFoundIsFalse ==
    HdfsPoked =>
        /\ lastInput.ls.kind = "FileNotFoundException" => LastOutcome = Return(0)
        /\ (lastInput.ls.kind = "entries" /\ lastInput.ls.n >= 1)
              => LastOutcome = Return(1)

C10_Witness ==
    /\ HdfsPoked
    /\ lastInput.ls.kind = "FileNotFoundException"
    /\ pc = "sleep"
    /\ FirstRaise = 0

(* C11: a listing that succeeds with no entries gives false; poke is true
   only when the listing returns at least one entry. *)
C11_EmptyListingIsFalse ==
    HdfsPoked =>
        /\ (lastInput.ls.kind = "entries" /\ lastInput.ls.n = 0)
              => LastOutcome = Return(0)
        /\ LastOutcome = Return(1)
              => (lastInput.ls.kind = "entries" /\ lastInput.ls.n >= 1)

(* C12 as stated: only not-found is downgraded to false; a connectivity
   error of the listing leaves poke as an error. *)
C12_ConnectivityErrorPropagates ==
    HdfsPoked =>
        /\ lastInput.ls.kind = "FileNotFoundException" => LastOutcome = Return(0)
        /\ lastInput.ls.kind = "ConnectionError"
              => LastOutcome = Raise("ConnectionError")

(* C12 amended: every failure the listing raises, not-found and
   connectivity errors alike, is downgraded to false and the run goes on;
   poke raises only when the connection of its client does not resolve. *)
C12_ListingErrorsSwallowed ==
    /\ (HdfsPoked /\ lastInput.ls.kind # "entries") =>
          /\ LastOutcome = Return(0)
          /\ pc # "error"
    /\ (kind = "HdfsSensor" /\ pokes > 0 /\ LastOutcome.raised) => ~conn_known

C12_Witness ==
    /\ HdfsPoked
    /\ lastInput.ls.kind = "ConnectionError"
    /\ pokes = 2
    /\ pc = "sleep"

-----------------------------------------------------------------------------
(* ExternalTaskSensor.poke *)

(* C13: poke is truthy exactly when a task instance exists with the
   configured dag id and task id, a state in allowed_states and
   execution_date equal to the context's execution_date minus
   execution_delta if a delta is configured, the execution_date itself
   otherwise; allowed_states defaults to {SUCCESS}. *)
C13_ExternalTaskPokeResult ==
    (kind = "ExternalTaskSensor" /\ pokes > 0) =>
        LET effective == IF args.execution_delta.set
                         THEN context.execution_date - args.execution_delta.v
                         ELSE context.execution_date
            matching == \E ti \in lastInput.table :
                            /\ ti.dag_id = "dag"
                            /\ ti.task_id = "task"
                            /\ ti.state \in attrs.allowed_states
                            /\ ti.execution_date = effective
        IN /\ ~LastOutcome.raised
           /\ Truthy(LastOutcome.value) <=> matching
           /\ args.allowed_states = {} => attrs.allowed_states = {"success"}
           /\ args.allowed_states # {} => attrs.allowed_states = args.allowed_states

C13_Witness ==
    /\ kind = "ExternalTaskSensor"
    /\ args.execution_delta = Timedelta(1)
    /\ args.allowed_states = {}
    /\ pokes = 2
    /\ pc = "success"
    /\ lastInput.table =
          {[dag_id |-> "dag", task_id |-> "task", state |-> "success",
            execution_date |-> 0],
           [dag_id |-> "dag", task_id |-> "task", state |-> "failed",
            execution_date |-> 1]}

-----------------------------------------------------------------------------
(* TimeDeltaSensor.poke and TimeSensor.poke *)

(* C14: poke is true exactly when now is strictly later than
   execution_date + schedule_interval + delta, false at that instant and
   before; with no schedule interval it raises. *)
C14_TimeDeltaPokeResult ==
    (kind = "TimeDeltaSensor" /\ pokes > 0) =>
        IF context.schedule_interval = NoInterval
        THEN LastOutcome.raised
        ELSE LastOutcome =
                Return(IF lastPokeAt > context.execution_date
                                         + context.schedule_interval + delta
                       THEN 1 ELSE 0)

C14_Witness ==
    /\ kind = "TimeDeltaSensor"
    /\ context.schedule_interval = 1
    /\ delta = 0
    /\ lastPokeAt = context.execution_date + 1
    /\ LastOutcome = Return(0)
    /\ pc = "sleep"

(* C15: poke is true exactly when the time of day of the clock is strictly
   greater than target_time, whatever the date, and it never raises. *)
C15_TimeSensorPokeResult ==
    (kind = "TimeSensor" /\ pokes > 0) =>
        LastOutcome =
            Return(IF lastPokeAt % SecondsPerDay > attrs.target_time
                   THEN 1 ELSE 0)

C15_Witness ==
    /\ kind = "TimeSensor"
    /\ lastPokeAt >= SecondsPerDay
    /\ lastPokeAt > attrs.target_time
    /\ LastOutcome = Return(0)
    /\ pc = "sleep"

-----------------------------------------------------------------------------
(* Construction *)

(* C16: a connection id that is not in the repository makes the
   construction of the sensor fail, so no poke is ever made with it. *)
C16_UnknownConnFailsConstruction ==
    (kind \in ConnSensors /\ ~conn_known) =>
        /\ pc = "config_error"
        /\ pokes = 0

StripSlash(path) == IF Len(path) > 0 /\ path[1] = "/" THEN Tail(path) ELSE path

(* C17: without bucket_name, a bucket_key with a non-empty host gives
   bucket_name = host and bucket_key = path without its leading "/";
   any other bucket_key fails construction with AirflowException and with
   nothing else; with a bucket_name the bucket_key is kept. *)
C17_S3KeyLocator ==
    (kind = "S3KeySensor" /\ conn_known) =>
        LET parsed == urlparse(args.bucket_key)
        IN /\ ctor_exc \in {"none", "AirflowException"}
           /\ (args.bucket_name = NoName /\ parsed.netloc # <<>>) =>
                 /\ ctor_exc = "none"
                 /\ attrs.bucket_name = parsed.netloc
                 /\ attrs.bucket_key = StripSlash(parsed.path)
           /\ (args.bucket_name = NoName /\ parsed.netloc = <<>>) =>
                 ctor_exc = "AirflowException"
           /\ args.bucket_name # NoName =>
                 /\ ctor_exc = "none"
                 /\ attrs.bucket_name = args.bucket_name
                 /\ attrs.bucket_key = args.bucket_key

-----------------------------------------------------------------------------
(* Hooks *)

(* C18: every method of HiveMetastoreHook that opens the transport leaves
   it closed when the call ends, whether it returns or raises. *)
C18_TransportClosedAfterCall == hookCalls > 0 => transport = "closed"

HookSensors == ConnSensors \cup {"HttpSensor"}

(* C19 as stated: a sensor's hook is constructed once, at the first poke:
   none exists before it and no other is made after it. *)
C19_OneLazyHook ==
    (kind \in HookSensors /\ pc # "config_error") =>
        hooks_made = IF pokes = 0 THEN 0 ELSE 1

(* C19 amended: HivePartitionSensor makes its hook once, in the first poke
   that gets that far, and uses it in every later poke; SqlSensor and
   HttpSensor make theirs once, in the constructor; HdfsSensor, S3KeySensor
   and S3PrefixSensor make a new hook in every poke. *)
C19_HooksPerSensor ==
    pc # "config_error" =>
        CASE kind \in {"SqlSensor", "HttpSensor"} ->
                has_hook /\ hooks_made = 1
          [] kind = "HivePartitionSensor" ->
                /\ hooks_made = IF has_hook THEN 1 ELSE 0
                /\ has_hook <=> (pokes > 0 /\ conn_known
                                   /\ args.table # <<"a", ".", "b", ".", "c">>)
          [] kind \in {"HdfsSensor", "S3KeySensor", "S3PrefixSensor"} ->
                ~has_hook /\ hooks_made = pokes
          [] OTHER ->
                ~has_hook /\ hooks_made = 0

C19_Witness ==
    /\ kind = "HivePartitionSensor"
    /\ pokes = 3
    /\ hooks_made = 1
    /\ has_hook

-----------------------------------------------------------------------------
(* Configuration attributes *)

(* C20 as stated: no poke of any sensor changes a configuration
   attribute. *)
C20_ConfigImmutable ==
    [][/\ attrs' = attrs
       /\ poke_interval' = poke_interval
       /\ timeout' = timeout
       /\ delta' = delta]_vars

(* C20 amended: no poke changes a configuration attribute, except that the
   first poke of a HivePartitionSensor whose table is 'db.tbl' sets schema
   to db and table to tbl; every later poke sees those values. *)
C20_Step ==
    /\ poke_interval' = poke_interval
    /\ timeout' = timeout
    /\ delta' = delta
    /\ attrs' # attrs =>
          /\ kind = "HivePartitionSensor"
          /\ pc = "poke"
          /\ pokes = 0
          /\ args.table = <<"d", ".", "t">>
          /\ attrs = args
          /\ attrs' = [attrs EXCEPT !.schema = <<"d">>, !.table = <<"t">>]

C20_OnlyHiveRenames == [][C20_Step]_vars

C20_Witness ==
    /\ kind = "HivePartitionSensor"
    /\ args.table = <<"d", ".", "t">>
    /\ attrs.table = <<"t">>
    /\ attrs.schema = <<"d">>
    /\ pokes = 3

-----------------------------------------------------------------------------
(* Partition checks on tables without partition keys *)

(* a poke of a HivePartitionSensor that called check_for_partition on a
   transport that opened *)
HiveChecked ==
    /\ kind = "HivePartitionSensor"
    /\ pokes > 0
    /\ has_hook
    /\ lastInput.reply.kind # "TTransportException"

(* C21: a partition check on a table that has zero partition keys raises:
   the poke of a HivePartitionSensor does not return false for it and the
   run does not go on polling. *)
C21_NonPartitionedRaises ==
    (HiveChecked /\ lastInput.reply.keys = 0) =>
        /\ LastOutcome.raised
        /\ pc = "error"

-----------------------------------------------------------------------------
(* The timeout as an outcome *)

(* the numbers an exception carries *)
Carries(e, n) == \E i \in 1..Len(e.data) : e.data[i] = n

(* C22: a run that times out ends with AirflowSensorTimeout, which no
   poke error is reported as, and that error carries the elapsed time and
   the configured timeout. *)
C22_TimeoutReportedWithContext ==
    /\ pc = "error" => exception.cls # "AirflowSensorTimeout"
    /\ pc = "timeout" =>
          /\ exception.cls = "AirflowSensorTimeout"
          /\ Carries(exception, Elapsed)
          /\ Carries(exception, timeout)

-----------------------------------------------------------------------------
(* max_partition *)

MaxPartitionCalled ==
    /\ lastCall.method = "max_partition"
    /\ lastCall.reply.kind = "ok"

(* the values of partition key number col, over the partitions returned *)
Column(reply, col) == {reply.parts[i][col] : i \in 1..reply.n}

(* v is the greatest string of the set vs *)
IsMaxOf(v, vs) == v \in vs /\ \A w \in vs : ~StrLess(v, w)

ReturnsMaxOf(o, vs) ==
    /\ ~o.raised
    /\ o.value.t = "str"
    /\ IsMaxOf(o.value.s, vs)

(* C23: max_partition returns None when the table has no matching
   partitions; with exactly one partition key it returns the greatest
   value of that key over the partitions, whatever field was passed; with
   several keys it returns the greatest value of the given field and
   raises AirflowException when no field was given.  (A table without
   partition keys makes get_partitions raise AirflowException.) *)
C23_MaxPartition ==
    MaxPartitionCalled =>
        LET reply == lastCall.reply
            field == lastCall.field
            o == lastCall.outcome
        IN /\ reply.keys = 0 => o.raised /\ o.exc = "AirflowException"
           /\ (reply.keys > 0 /\ reply.n = 0) =>
                 ~o.raised /\ o.value = NoneCell
           /\ (reply.keys = 1 /\ reply.n > 0) =>
                 ReturnsMaxOf(o, Column(reply, 1))
           /\ (reply.keys > 1 /\ reply.n > 0 /\ field = NoField) =>
                 o.raised /\ o.exc = "AirflowException"
           /\ (reply.keys > 1 /\ reply.n > 0) =>
                 \A col \in 1..reply.keys :
                     field = reply.pnames[col] =>
                         ReturnsMaxOf(o, Column(reply, col))

(* '9' is the greatest of '9' and '10', and it is returned for a field that
   is not the table's partition key *)
C23_Witness ==
    /\ MaxPartitionCalled
    /\ lastCall.reply.pnames = <<"ds">>
    /\ lastCall.reply.parts = << <<<<"1", "0">>>>, <<<<"9">>>> >>
    /\ lastCall.field = "zz"
    /\ ~lastCall.outcome.raised
    /\ lastCall.outcome.value = StrCell(<<"9">>)

-----------------------------------------------------------------------------
(* Pokes, sleeps and timeout checks of a run *)

(* the pokes that returned a falsy value *)
FalsePokes ==
    Cardinality({k \in 1..Len(results) :
                    ~results[k].raised /\ ~Truthy(results[k].value)})

Executing == pc \notin {"pending", "config_error"}

RunCounts ==
    /\ pc = "success" => pokes = sleeps + 1
    /\ pc = "timeout" => pokes = sleeps /\ sleeps >= 1
    /\ (Executing /\ pc \in Terminal) => pokes >= 1

(* C24 as stated: at every point of a run the sleeps completed are as many
   as the pokes that returned false; a run that succeeds has made
   pokes = sleeps + 1, a run that times out pokes = sleeps >= 1, and every
   run pokes at least once. *)
C24_SleepsEqualFalsePokes ==
    /\ Executing => sleeps = FalsePokes
    /\ RunCounts

(* C24 amended: the sleeps completed are as many as the pokes that returned
   false at every point of a run except while the sleep that follows a
   false poke is in progress, when they are one fewer; the counts of
   finished runs are as stated (a run that ends in a poke error has also
   made pokes = sleeps + 1). *)
C24_SleepsTrackFalsePokes ==
    /\ pc = "sleep" => sleeps + 1 = FalsePokes
    /\ (Executing /\ pc # "sleep") => sleeps = FalsePokes
    /\ pc = "error" => pokes = sleeps + 1
    /\ RunCounts

(* a timeout smaller than poke_interval: one poke, one sleep, timeout *)
C24_Witness ==
    /\ pc = "timeout"
    /\ timeout < poke_interval
    /\ pokes = 1
    /\ sleeps = 1
    /\ FalsePokes = 1

C25_Inv ==
    /\ (pokes > 0 /\ ~LastOutcome.raised /\ Truthy(LastOutcome.value)) =>
          pc = "success"
    /\ checks <= sleeps
    /\ sleeps <= FalsePokes

C25_Step ==
    /\ checks' # checks =>
          /\ pc = "check"
          /\ sleeps = checks + 1
          /\ sleeps = FalsePokes
          /\ ~Truthy(LastOutcome.value)
          /\ UNCHANGED <<pokes, now>>
    /\ pc' = "timeout" => checks' # checks \/ pc = "timeout"
    /\ pokes' # pokes =>
          /\ pc = "poke"
          /\ pc' \in {"success", "sleep", "error"}
          /\ UNCHANGED checks

(* C25: a truthy poke always ends the run in success, whatever time has
   elapsed; the timeout is checked only right after a sleep that follows a
   false poke, never before a poke, after a true one or during one. *)
C25_TruePokeAlwaysSucceeds == []C25_Inv /\ [][C25_Step]_vars

(* a run that succeeded after more than timeout had elapsed *)
C25_Witness ==
    /\ pc = "success"
    /\ Elapsed > timeout
    /\ timedelta_seconds(Elapsed) > timeout
    /\ pokes = 2

-----------------------------------------------------------------------------
(* The target of a HivePartitionSensor *)

(* what poke hands to check_for_partition *)
Queried == <<attrs.schema, attrs.table, attrs.partition>>

HivePoked == kind = "HivePartitionSensor" /\ pokes > 0

C26_Inv ==
    HivePoked =>
        /\ args.table = <<"d", ".", "t">> =>
              Queried = <<<<"d">>, <<"t">>, args.partition>>
        /\ ~Contains(args.table, ".") =>
              Queried = <<args.schema, args.table, args.partition>>

C26_Step == HivePoked => Queried' = Queried

(* C26: for a table given as 'db.tbl' the first poke of a
   HivePartitionSensor sets schema = db and table = tbl, and every later
   poke queries the same (schema, table, partition) as the first; for a
   table name without a dot no poke changes schema or table. *)
C26_PokeIdempotentOnTarget == []C26_Inv /\ [][C26_Step]_vars

C26_Witness ==
    /\ HivePoked
    /\ args.table = <<"d", ".", "t">>
    /\ args.schema # <<"d">>
    /\ pokes = 3
    /\ pc = "success"
    /\ Queried = <<<<"d">>, <<"t">>, args.partition>>

-----------------------------------------------------------------------------
(* get_results *)

(* the statements of the call, a single string being one statement *)
StatementList(hql) == IF hql.basestring THEN <<hql.text>> ELSE hql.list

(* the positions of the statements that returned rows *)
WithRows(server, statements) ==
    {i \in 1..Len(statements) : server[statements[i]].n > 0}

Last(positions) == CHOOSE i \in positions : \A j \in positions : j <= i

C27_Case ==
    /\ lastCall.method \in {"get_results", "get_records"}
    /\ \A i \in 1..Len(StatementList(lastCall.hql)) :
          lastCall.server[StatementList(lastCall.hql)[i]].kind = "rows"

(* C27: get_results executes every statement of the list in order and
   returns the records and the header of the last statement that returned
   rows, which need not be the last one executed; when no statement
   returns rows it returns empty data and an empty header; a single string
   is a list of one statement.  get_records returns the data of
   get_results. *)
C27_LastNonEmptyResult ==
    C27_Case =>
        LET statements == StatementList(lastCall.hql)
            hits == WithRows(lastCall.server, statements)
            expected ==
                IF hits = {} THEN NoResults
                ELSE [data |-> fetchall(lastCall.server, statements[Last(hits)]),
                      header |-> getSchema(statements[Last(hits)])]
        IN /\ lastCall.executed = statements
           /\ ~lastCall.outcome.raised
           /\ lastCall.method = "get_results" =>
                 lastCall.outcome.value = expected
           /\ lastCall.method = "get_records" =>
                 lastCall.outcome.value = expected.data

(* two statements, the first returns a row and the second none: the result
   is that of the first *)
C27_Witness ==
    /\ lastCall.method = "get_results"
    /\ lastCall.hql = HqlList(<<<<"a">>, <<"b">>>>)
    /\ lastCall.server[<<"a">>] = [kind |-> "rows", n |-> 1]
    /\ lastCall.server[<<"b">>] = [kind |-> "rows", n |-> 0]
    /\ lastCall.executed = <<<<"a">>, <<"b">>>>
    /\ lastCall.outcome.value.header = <<[columnName |-> <<"a">>]>>
    /\ Len(lastCall.outcome.value.data) = 1

====
